---- MODULE Spec2Model ----
(***************************************************************************)
(* ScalarIndexSort<T> for a fixed-width T                                  *)
(* (internal/core/src/index/ScalarIndexSort-inl.h).                        *)
(*                                                                         *)
(* One index object (data_, is_built_).  Every public member function is   *)
(* one action; the call, its arguments, the exception it threw and what it *)
(* returned (the bitmap ret, the BinarySet res_set) are kept until the     *)
(* caller, which is sequential, takes them (Return) and is free to make    *)
(* its next call.  Load is given any BinarySet that Serialize returns for  *)
(* an index that Build calls produce (BuiltIndexes).                       *)
(* built_from is the list of the arrays whose records data_ holds, and     *)
(* source the index whose BinarySet was loaded; no operation reads them.   *)
(*                                                                         *)
(* A record of data_ is [a |-> value, idx |-> position]; operator< of      *)
(* IndexStructure compares a only.  A bitmap of size n is a sequence of n  *)
(* booleans, bit p being element p + 1.                                    *)
(*                                                                         *)
(* std::lower_bound / std::upper_bound are modelled by the halving search  *)
(* every standard library implements, so that their result on a range      *)
(* that is not sorted (after a second Build) is the one the build returns. *)
(* std::sort is not stable: the order of records of equal value is any.    *)
(***************************************************************************)
EXTENDS Integers, Sequences, FiniteSets

\* ---- bounds ----
MaxCount == 3
MaxData == 3
MaxProbes == 2

\* sizeof(IndexStructure<T>) in words: the value word and the position word
Stride == 2

\* the values of the column, and the probe and boundary values: the column's
\* values, a value below them, one between them and one above them
Values == {2, 4}
Probes == {1, 2, 3, 4, 5}
Arrays == UNION {[1..n -> Values] : n \in 0..MaxCount}
ProbeLists == UNION {[1..n -> Probes] : n \in 0..MaxProbes}
Operators == {"LT", "LE", "GT", "GE", "Invalid"}

VARIABLES data_, is_built_, op, args, err, ret, res_set, built_from, source

vars == <<data_, is_built_, op, args, err, ret, res_set, built_from, source>>

NoBinarySet == [index_length |-> 0, index_data |-> <<>>]
NoArgs == [n |-> 0, values |-> <<>>, value |-> 0, op |-> "", lower |-> 0, lb_inclusive |-> FALSE, upper |-> 0, ub_inclusive |-> FALSE, index_binary |-> NoBinarySet]
NoBitmap == <<>>
NoSource == [data |-> <<>>, from |-> <<>>]

IndexStructure(a, idx) == [a |-> a, idx |-> idx]

\* ---- <algorithm> ----
RECURSIVE lower_bound(_, _, _, _)
lower_bound(d, first, len, v) ==
    IF len = 0 THEN first
    ELSE LET half == len \div 2
             middle == first + half
         IN  IF d[middle].a < v
             THEN lower_bound(d, middle + 1, len - half - 1, v)
             ELSE lower_bound(d, first, half, v)

RECURSIVE upper_bound(_, _, _, _)
upper_bound(d, first, len, v) ==
    IF len = 0 THEN first
    ELSE LET half == len \div 2
             middle == first + half
         IN  IF v < d[middle].a
             THEN upper_bound(d, first, half, v)
             ELSE upper_bound(d, middle + 1, len - half - 1, v)

Sorted(d) == \A i \in 1..Len(d) : \A j \in 1..Len(d) : i < j => d[i].a <= d[j].a

Orderings(n) == {f \in [1..n -> 1..n] : \A i \in 1..n : \A j \in 1..n : i # j => f[i] # f[j]}

\* the possible results of std::sort(data_.begin(), data_.end())
sort(d) == {s \in {[i \in 1..Len(d) |-> d[f[i]]] : f \in Orderings(Len(d))} : Sorted(s)}

\* ---- TargetBitmap ----
TargetBitmap(n) == [p \in 1..n |-> FALSE]
set_all(b) == [p \in 1..Len(b) |-> TRUE]
set(b, pos) == [b EXCEPT ![pos + 1] = TRUE]
reset(b, pos) == [b EXCEPT ![pos + 1] = FALSE]

\* mutant: only the first record of the range is marked
set_range_first(b, d, lb, ub) ==
    IF lb < ub THEN set(b, d[lb].idx) ELSE b

\* for (; lb < ub; ++lb) bitset->set(lb->idx_);
RECURSIVE set_range(_, _, _, _)
set_range(b, d, lb, ub) ==
    IF lb < ub THEN set_range(set(b, d[lb].idx), d, lb + 1, ub) ELSE b

\* for (; lb < ub; ++lb) bitset->reset(lb->idx_);
RECURSIVE reset_range(_, _, _, _)
reset_range(b, d, lb, ub) ==
    IF lb < ub THEN reset_range(reset(b, d[lb].idx), d, lb + 1, ub) ELSE b

\* mutant: an empty index is marked built instead of being rejected
build_nothrow(d, b) ==
    IF b THEN {[data |-> d, is_built |-> b, err |-> "none"]}
    ELSE {[data |-> s, is_built |-> TRUE, err |-> "none"] : s \in sort(d)}

\* mutant: the records are marked built without being sorted
build_nosort(d, b) ==
    IF b THEN {[data |-> d, is_built |-> b, err |-> "none"]}
    ELSE IF Len(d) = 0
         THEN {[data |-> d, is_built |-> b, err |-> "cannot_build_null_values"]}
         ELSE {[data |-> d, is_built |-> TRUE, err |-> "none"]}

\* mutant: a single record is rejected like none
build_offbyone(d, b) ==
    IF b THEN {[data |-> d, is_built |-> b, err |-> "none"]}
    ELSE IF Len(d) <= 1
         THEN {[data |-> d, is_built |-> b, err |-> "cannot_build_null_values"]}
         ELSE {[data |-> s, is_built |-> TRUE, err |-> "none"] : s \in sort(d)}

\* ---- ScalarIndexSort<T>::build ----
\* the set of outcomes of build() on records d with flag b
build(d, b) ==
    IF b THEN {[data |-> d, is_built |-> b, err |-> "none"]}
    ELSE IF Len(d) = 0
         THEN {[data |-> d, is_built |-> b, err |-> "cannot_build_null_values"]}
         ELSE {[data |-> s, is_built |-> TRUE, err |-> "none"] : s \in sort(d)}

\* data_.emplace_back(IndexStructure(*p++, i)) for i in 0..n-1
emplace_all(d, values) ==
    d \o [i \in 1..Len(values) |-> IndexStructure(values[i], i - 1)]

\* ---- query bodies, after the build-if-not-built step ----
RECURSIVE In(_, _, _)
In(d, values, b) ==
    IF values = <<>> THEN b
    ELSE LET v == Head(values)
             lb == lower_bound(d, 1, Len(d), v)
             ub == upper_bound(d, 1, Len(d), v)
         IN  In(d, Tail(values), set_range(b, d, lb, ub))

RECURSIVE NotIn(_, _, _)
NotIn(d, values, b) ==
    IF values = <<>> THEN b
    ELSE LET v == Head(values)
             lb == lower_bound(d, 1, Len(d), v)
             ub == upper_bound(d, 1, Len(d), v)
         IN  NotIn(d, Tail(values), reset_range(b, d, lb, ub))

InBitmap(d, values) == In(d, values, TargetBitmap(Len(d)))

\* mutant: the bitmap of NotIn is not set before the probes are cleared
NotInBitmap_unset(d, values) == NotIn(d, values, TargetBitmap(Len(d)))

\* the bitmap of NotIn: bitset->set(), then the probes
NotInBitmap(d, values) == NotIn(d, values, set_all(TargetBitmap(Len(d))))

\* mutant: LT stops at upper_bound, as LE does
Range_ltinclusive(d, value, o) ==
    LET lb == CASE o = "GT" -> upper_bound(d, 1, Len(d), value)
                [] o = "GE" -> lower_bound(d, 1, Len(d), value)
                [] OTHER -> 1
        ub == CASE o = "LT" -> upper_bound(d, 1, Len(d), value)
                [] o = "LE" -> upper_bound(d, 1, Len(d), value)
                [] OTHER -> Len(d) + 1
    IN  set_range(TargetBitmap(Len(d)), d, lb, ub)

\* Range(value, op) for a recognised operator
Range(d, value, o) ==
    LET begin == 1
        end == Len(d) + 1
        lb == CASE o = "GT" -> upper_bound(d, 1, Len(d), value)
                [] o = "GE" -> lower_bound(d, 1, Len(d), value)
                [] OTHER -> begin
        ub == CASE o = "LT" -> lower_bound(d, 1, Len(d), value)
                [] o = "LE" -> upper_bound(d, 1, Len(d), value)
                [] OTHER -> end
    IN  set_range(TargetBitmap(Len(d)), d, lb, ub)

\* mutant: the values of an inverted interval are swapped, the flags are not
Range2_valuesonly(d, lower_bound_value, lb_inclusive, upper_bound_value, ub_inclusive) ==
    LET swap == lower_bound_value > upper_bound_value
        lo == IF swap THEN upper_bound_value ELSE lower_bound_value
        hi == IF swap THEN lower_bound_value ELSE upper_bound_value
        lb == IF lb_inclusive THEN lower_bound(d, 1, Len(d), lo) ELSE upper_bound(d, 1, Len(d), lo)
        ub == IF ub_inclusive THEN upper_bound(d, 1, Len(d), hi) ELSE lower_bound(d, 1, Len(d), hi)
    IN  set_range(TargetBitmap(Len(d)), d, lb, ub)

\* mutant: the upper search point is always lower_bound, ub_inclusive is ignored
Range2_upperexclusive(d, lower_bound_value, lb_inclusive, upper_bound_value, ub_inclusive) ==
    LET swap == lower_bound_value > upper_bound_value
        lo == IF swap THEN upper_bound_value ELSE lower_bound_value
        hi == IF swap THEN lower_bound_value ELSE upper_bound_value
        lo_inc == IF swap THEN ub_inclusive ELSE lb_inclusive
        lb == IF lo_inc THEN lower_bound(d, 1, Len(d), lo) ELSE upper_bound(d, 1, Len(d), lo)
        ub == lower_bound(d, 1, Len(d), hi)
    IN  set_range(TargetBitmap(Len(d)), d, lb, ub)

\* Range(lower_bound_value, lb_inclusive, upper_bound_value, ub_inclusive)
Range2(d, lower_bound_value, lb_inclusive, upper_bound_value, ub_inclusive) ==
    LET swap == lower_bound_value > upper_bound_value
        lo == IF swap THEN upper_bound_value ELSE lower_bound_value
        hi == IF swap THEN lower_bound_value ELSE upper_bound_value
        lo_inc == IF swap THEN ub_inclusive ELSE lb_inclusive
        hi_inc == IF swap THEN lb_inclusive ELSE ub_inclusive
        lb == IF lo_inc THEN lower_bound(d, 1, Len(d), lo) ELSE upper_bound(d, 1, Len(d), lo)
        ub == IF hi_inc THEN upper_bound(d, 1, Len(d), hi) ELSE lower_bound(d, 1, Len(d), hi)
    IN  set_range(TargetBitmap(Len(d)), d, lb, ub)

\* ---- the raw image of data_ ----
\* mutant: the position word of every record is written as 0
ToWords_noidx(d) ==
    [k \in 1..(Stride * Len(d)) |-> IF k % Stride = 1 THEN d[(k + 1) \div Stride].a ELSE 0]

\* memcpy(index_data.get(), data_.data(), data_.size() * sizeof(IndexStructure<T>))
ToWords(d) ==
    [k \in 1..(Stride * Len(d)) |-> IF k % Stride = 1 THEN d[(k + 1) \div Stride].a ELSE d[k \div Stride].idx]

\* the records a buffer of Stride * n words holds
FromWords(w) ==
    [i \in 1..(Len(w) \div Stride) |-> IndexStructure(w[Stride * i - 1], w[Stride * i])]

\* memcpy(dst, src, size(src)) into a buffer at least as long as src
memcpy(dst, src) == [k \in 1..Len(dst) |-> IF k <= Len(src) THEN src[k] ELSE dst[k]]

\* data_.resize(n): keeps the first n records, value-initialises the others;
\* the position of a value-initialised record is indeterminate
resize(d, n) ==
    IF n <= Len(d) THEN {SubSeq(d, 1, n)}
    ELSE {d \o pad : pad \in [1..(n - Len(d)) -> {IndexStructure(0, i) : i \in 0..(n - 1)}]}

\* the records Load leaves in an index holding d
load(d, index_binary) ==
    {FromWords(memcpy(ToWords(r), index_binary.index_data)) : r \in resize(d, index_binary.index_length)}

\* the BinarySet Serialize returns for records d
BinarySet(d) == [index_length |-> Len(d), index_data |-> ToWords(d)]

\* ---- the indexes Build calls produce, each with the arrays it was built from ----
FirstBuilt ==
    UNION {{[data |-> out.data, from |-> <<a>>] :
                out \in {o \in build(emplace_all(<<>>, a), FALSE) : o.err = "none"}} :
           a \in Arrays \ {<<>>}}

Rebuilt(S) ==
    {y \in {[data |-> emplace_all(x.data, a), from |-> Append(x.from, a)] : x \in S, a \in Arrays \ {<<>>}} :
        Len(y.data) <= MaxData}

RECURSIVE BuiltAfter(_)
BuiltAfter(k) ==
    IF k = 0 THEN FirstBuilt
    ELSE LET S == BuiltAfter(k - 1) IN S \cup Rebuilt(S)

BuiltIndexes == BuiltAfter(MaxData)

Init ==
    /\ data_ = <<>>
    /\ is_built_ = FALSE
    /\ op = "idle"
    /\ args = NoArgs
    /\ err = "none"
    /\ ret = NoBitmap
    /\ res_set = NoBinarySet
    /\ built_from = <<>>
    /\ source = NoSource

\* ScalarIndexSort(): a new, empty index
ScalarIndexSort ==
    /\ op = "idle"
    /\ data_' = <<>>
    /\ is_built_' = FALSE
    /\ op' = "ScalarIndexSort"
    /\ built_from' = <<>>
    /\ UNCHANGED <<args, err, ret, res_set, source>>

\* Build(n, values)
Build ==
    \E values \in Arrays :
        /\ op = "idle"
        /\ Len(data_) + Len(values) <= MaxData
        /\ \E out \in build(emplace_all(data_, values), is_built_) :
            /\ data_' = out.data
            /\ is_built_' = out.is_built
            /\ err' = out.err
        /\ op' = "Build"
        /\ args' = [NoArgs EXCEPT !.n = Len(values), !.values = values]
        /\ built_from' = IF Len(values) = 0 THEN built_from ELSE Append(built_from, values)
        /\ UNCHANGED <<ret, res_set, source>>

\* Serialize(config)
Serialize ==
    /\ op = "idle"
    /\ \E out \in build(data_, is_built_) :
        /\ data_' = out.data
        /\ is_built_' = out.is_built
        /\ err' = out.err
        /\ res_set' = IF out.err = "none" THEN BinarySet(out.data) ELSE NoBinarySet
    /\ op' = "Serialize"
    /\ UNCHANGED <<args, ret, built_from, source>>

\* Load(index_binary), index_binary being what Serialize returned for src
Load ==
    \E src \in BuiltIndexes :
        /\ op = "idle"
        /\ data_' \in load(data_, BinarySet(src.data))
        /\ is_built_' = TRUE
        /\ op' = "Load"
        /\ args' = [NoArgs EXCEPT !.index_binary = BinarySet(src.data)]
        /\ built_from' = src.from
        /\ source' = src
        /\ UNCHANGED <<err, ret, res_set>>

\* Load(index_binary), index_binary being no BinarySet that Serialize returns:
\* the index_data of one cut short by a word (a partial record) or by a record
LoadCorrupt ==
    \E src \in BuiltIndexes : \E cut \in 1..Stride :
        LET index_binary == [BinarySet(src.data) EXCEPT !.index_data = SubSeq(@, 1, Len(@) - cut)]
        IN  /\ op = "idle"
            /\ data_' \in load(data_, index_binary)
            /\ is_built_' = TRUE
            /\ op' = "Load"
            /\ args' = [NoArgs EXCEPT !.index_binary = index_binary]
            /\ built_from' = src.from
            /\ source' = src
            /\ UNCHANGED <<err, ret, res_set>>

\* In(n, values)
InQuery ==
    \E values \in ProbeLists :
        /\ op = "idle"
        /\ \E out \in build(data_, is_built_) :
            /\ data_' = out.data
            /\ is_built_' = out.is_built
            /\ err' = out.err
            /\ ret' = IF out.err = "none" THEN InBitmap(out.data, values) ELSE NoBitmap
        /\ op' = "In"
        /\ args' = [NoArgs EXCEPT !.n = Len(values), !.values = values]
        /\ UNCHANGED <<res_set, built_from, source>>

\* NotIn(n, values)
NotInQuery ==
    \E values \in ProbeLists :
        /\ op = "idle"
        /\ \E out \in build(data_, is_built_) :
            /\ data_' = out.data
            /\ is_built_' = out.is_built
            /\ err' = out.err
            /\ ret' = IF out.err = "none" THEN NotInBitmap(out.data, values) ELSE NoBitmap
        /\ op' = "NotIn"
        /\ args' = [NoArgs EXCEPT !.n = Len(values), !.values = values]
        /\ UNCHANGED <<res_set, built_from, source>>

\* Range(value, op)
RangeQuery ==
    \E value \in Probes : \E o \in Operators :
        /\ op = "idle"
        /\ \E out \in build(data_, is_built_) :
            /\ data_' = out.data
            /\ is_built_' = out.is_built
            /\ err' = IF out.err # "none" THEN out.err
                      ELSE IF o = "Invalid" THEN "invalid_operator_type" ELSE "none"
            /\ ret' = IF out.err = "none" /\ o # "Invalid" THEN Range(out.data, value, o) ELSE NoBitmap
        /\ op' = "Range"
        /\ args' = [NoArgs EXCEPT !.value = value, !.op = o]
        /\ UNCHANGED <<res_set, built_from, source>>

\* Range(lower_bound_value, lb_inclusive, upper_bound_value, ub_inclusive)
Range2Query ==
    \E lo \in Probes : \E hi \in Probes : \E li \in BOOLEAN : \E ui \in BOOLEAN :
        /\ op = "idle"
        /\ \E out \in build(data_, is_built_) :
            /\ data_' = out.data
            /\ is_built_' = out.is_built
            /\ err' = out.err
            /\ ret' = IF out.err = "none" THEN Range2(out.data, lo, li, hi, ui) ELSE NoBitmap
        /\ op' = "Range2"
        /\ args' = [NoArgs EXCEPT !.lower = lo, !.lb_inclusive = li, !.upper = hi, !.ub_inclusive = ui]
        /\ UNCHANGED <<res_set, built_from, source>>

\* the call is over: the caller has its result, or has caught the exception
Return ==
    /\ op # "idle"
    /\ op' = "idle"
    /\ args' = NoArgs
    /\ err' = "none"
    /\ ret' = NoBitmap
    /\ res_set' = NoBinarySet
    /\ source' = NoSource
    /\ UNCHANGED <<data_, is_built_, built_from>>

Next ==
    \/ ScalarIndexSort
    \/ Build
    \/ Serialize
    \/ Load
    \/ InQuery
    \/ NotInQuery
    \/ RangeQuery
    \/ Range2Query
    \/ Return

Spec == Init /\ [][Next]_vars

\* the same index, handed BinarySets that were tampered with as well
NextCorrupt ==
    \/ Next
    \/ LoadCorrupt

SpecCorrupt == Init /\ [][NextCorrupt]_vars

\* ---- properties ----
Complement(b) == [p \in 1..Len(b) |-> ~b[p]]
LazyOps == {"Serialize", "In", "NotIn", "Range", "Range2"}
\* the records stem from one Build call, directly or through Serialize and Load
BuiltOnce == is_built_ /\ Len(built_from) = 1
\* the BinarySet is one no Serialize produces
Inconsistent(bs) ==
    \/ Len(bs.index_data) % Stride # 0
    \/ Len(bs.index_data) # Stride * bs.index_length

\* C1: after Build(count, values) on a fresh index, In(1, [v]) for a v of the
\* array returns a bitmap of size count whose set bits are exactly the
\* positions i with values[i] = v.
C1_InMarksExactlyTheEqualPositions ==
    (/\ op = "In"
     /\ err = "none"
     /\ args.n = 1
     /\ BuiltOnce
     /\ \E i \in 1..Len(built_from[1]) : built_from[1][i] = args.values[1])
    => ret = [p \in 1..Len(built_from[1]) |-> built_from[1][p] = args.values[1]]

C1_Witness ==
    /\ op = "In"
    /\ err = "none"
    /\ args.values = <<2>>
    /\ built_from = << <<2, 4, 2>> >>
    /\ ret = <<TRUE, FALSE, TRUE>>

\* C2: whenever the queries return, the bitmap of NotIn(n, values) is the
\* bitwise complement of the bitmap of In(n, values) over the positions
\* 0..records.size()-1, for every probe list.
C2_NotInIsComplementOfIn ==
    /\ (op = "NotIn" /\ err = "none") =>
        /\ Len(ret) = Len(data_)
        /\ ret = Complement(InBitmap(data_, args.values))
    /\ (op = "In" /\ err = "none") =>
        /\ Len(ret) = Len(data_)
        /\ Complement(ret) = NotInBitmap(data_, args.values)

C2_Witness ==
    /\ op = "NotIn"
    /\ err = "none"
    /\ args.values = <<2, 2>>
    /\ \E p \in 1..Len(ret) : ret[p]
    /\ \E p \in 1..Len(ret) : ~ret[p]

\* C3: an index loaded from the BinarySet another index serialized answers
\* In, NotIn, Range (LT, LE, GT, GE) and the double-bound Range exactly as
\* the index that was serialized, for every probe and boundary value; and
\* every index that Serialize serializes is one whose BinarySet Load is given.
C3_LoadOfSerializeAnswersAlike ==
    /\ (op = "Load" /\ err = "none") =>
        /\ \A values \in ProbeLists :
            /\ InBitmap(data_, values) = InBitmap(source.data, values)
            /\ NotInBitmap(data_, values) = NotInBitmap(source.data, values)
        /\ \A v \in Probes : \A o \in {"LT", "LE", "GT", "GE"} :
            Range(data_, v, o) = Range(source.data, v, o)
        /\ \A lo \in Probes : \A hi \in Probes : \A li \in BOOLEAN : \A ui \in BOOLEAN :
            Range2(data_, lo, li, hi, ui) = Range2(source.data, lo, li, hi, ui)
    /\ (op = "Serialize" /\ err = "none") =>
        [data |-> data_, from |-> built_from] \in BuiltIndexes

C3_Witness ==
    /\ op = "Load"
    /\ err = "none"
    /\ built_from = << <<4, 2, 2>> >>
    /\ args.index_binary.index_length = 3
    /\ Len(data_) = 3
    /\ data_[3] = IndexStructure(4, 0)

\* C4 as stated: for any boundary value v, Range(v, LT) and Range(v, GE) are
\* disjoint and their union is the full position set, on any built index.
C4_Original ==
    (op = "Range" /\ err = "none" /\ args.op = "LT") =>
        \A p \in 1..Len(data_) : ret[p] # Range(data_, args.value, "GE")[p]

\* C4 amended: on an index whose records stem from a single Build call,
\* every bit is set in exactly one of Range(v, LT) and Range(v, GE).
C4_LtAndGePartitionThePositions ==
    BuiltOnce =>
        /\ (op = "Range" /\ err = "none" /\ args.op = "LT") =>
            /\ Len(ret) = Len(data_)
            /\ \A p \in 1..Len(data_) : ret[p] # Range(data_, args.value, "GE")[p]
        /\ (op = "Range" /\ err = "none" /\ args.op = "GE") =>
            /\ Len(ret) = Len(data_)
            /\ \A p \in 1..Len(data_) : ret[p] # Range(data_, args.value, "LT")[p]

C4_Witness ==
    /\ op = "Range"
    /\ err = "none"
    /\ args.op = "LT"
    /\ args.value = 4
    /\ BuiltOnce
    /\ built_from[1] = <<4, 2, 4>>
    /\ ret = <<FALSE, TRUE, FALSE>>

\* C5: a double-bound Range with lower > upper is normalised: Range(a, fa, b, fb)
\* returns the bitmap of Range(b, fb, a, fa), each value keeping its own flag.
C5_InvertedIntervalIsNormalised ==
    (op = "Range2" /\ err = "none" /\ args.lower > args.upper)
        => ret = Range2(data_, args.upper, args.ub_inclusive, args.lower, args.lb_inclusive)

C5_Witness ==
    /\ op = "Range2"
    /\ err = "none"
    /\ args.lower = 4
    /\ args.upper = 2
    /\ args.lb_inclusive
    /\ ~args.ub_inclusive
    /\ built_from = << <<4, 2, 4>> >>
    /\ ret = <<TRUE, FALSE, TRUE>>

\* C6: on an index built once from an array, Range(lower, lb_inclusive, upper,
\* ub_inclusive) with lower <= upper sets exactly the positions whose value
\* lies in the interval, each end closed or open as its flag says.
C6_Range2MarksExactlyTheInterval ==
    (op = "Range2" /\ err = "none" /\ BuiltOnce /\ args.lower <= args.upper) =>
        ret = [p \in 1..Len(built_from[1]) |->
                /\ IF args.lb_inclusive THEN args.lower <= built_from[1][p]
                                        ELSE args.lower < built_from[1][p]
                /\ IF args.ub_inclusive THEN built_from[1][p] <= args.upper
                                        ELSE built_from[1][p] < args.upper]

C6_Witness ==
    /\ op = "Range2"
    /\ err = "none"
    /\ BuiltOnce
    /\ built_from[1] = <<4, 2, 2>>
    /\ args.lower = 3
    /\ args.upper = 4
    /\ args.lb_inclusive
    /\ args.ub_inclusive
    /\ ret = <<TRUE, FALSE, FALSE>>

\* C7 as stated: every Build(0, values) fails with std::invalid_argument,
\* whatever the state of the index.
C7_Original ==
    (op = "Build" /\ args.n = 0) => err = "cannot_build_null_values"

\* C7 amended: Build(0, values) on an index that is not built fails with
\* std::invalid_argument; on a built index it returns normally and leaves the
\* records as they are.
C7_BuildOfNothingFailsUnlessBuilt ==
    [][(op' = "Build" /\ args'.n = 0) =>
        /\ data_' = data_
        /\ is_built_' = is_built_
        /\ err' = IF is_built_ THEN "none" ELSE "cannot_build_null_values"]_vars

C7_Witness ==
    /\ op = "Build"
    /\ args.n = 0
    /\ err = "cannot_build_null_values"
    /\ ~is_built_

\* C8: Load fails with a CorruptData error and leaves the index not marked
\* built when the length of index_data is no multiple of the record stride or
\* differs from index_length times the stride.
C8_CorruptLoadFails ==
    (op = "Load" /\ Inconsistent(args.index_binary)) => (err = "CorruptData" /\ ~is_built_)

\* C9 as stated: is_built implies that the records are sorted by value, in
\* every reachable state, the state after a second Build included.
C9_Original ==
    is_built_ => Sorted(data_)

\* C9 amended: is_built implies that the records are sorted by value as long
\* as no Build appended records to an index that was already built.
C9_BuiltOnceIsSorted ==
    (is_built_ /\ Len(built_from) <= 1) => Sorted(data_)

C9_Witness ==
    /\ op = "Build"
    /\ is_built_
    /\ built_from = << <<4, 2, 4>> >>
    /\ data_[1] = IndexStructure(2, 1)

\* C10: an index that is not built holds no records, so the build-if-not-built
\* step of Serialize, In, NotIn and both Range operations sorts nothing: on an
\* index that is not built each fails with the zero-element error of build and
\* returns no result.
C10_NotBuiltIsEmptyAndLazyBuildFails ==
    /\ [](~is_built_ => data_ = <<>>)
    /\ [][(op' \in LazyOps /\ ~is_built_) =>
            /\ err' = "cannot_build_null_values"
            /\ ret' = NoBitmap
            /\ res_set' = NoBinarySet
            /\ data_' = data_
            /\ ~is_built_']_vars

C10_Witness ==
    /\ op = "Serialize"
    /\ err = "cannot_build_null_values"
    /\ res_set = NoBinarySet
    /\ ~is_built_
    /\ data_ = <<>>
====
